---- MODULE Spec2Model ----
(***************************************************************************)
(* A model of intro_deep_learning/3_adv_interp_attention.ipynb:            *)
(*   - FGSMAttack.perturb and BIMAttack.perturb (the perturbation engine), *)
(*   - GradCAM (hooks and generate),                                       *)
(*   - the notebook's harness: get_adversarial_accuracy,                   *)
(*     adversarial_training and the integration script.                    *)
(*                                                                         *)
(* Numbers.  Pixel values are reals in [0,1]; the model puts them on the   *)
(* grid 0..Scale (the value p stands for p/Scale), and epsilon and alpha   *)
(* are whole numbers of grid steps (the notebook uses 8/255 and 2/255 on   *)
(* the 0..255 grid of ToTensor).  Arithmetic is exact: float32 rounding is *)
(* not modelled.  The classifier and the loss are a black box: the sign of *)
(* the gradient at an input is any vector over {-1,0,1}, fixed per input   *)
(* for a frozen classifier (memo).                                         *)
(***************************************************************************)
EXTENDS Integers, Sequences, FiniteSets, TLC

\* ------------------------------------------------------------- bounds
ImageWidth == 4
MaxModels == 2
MaxBatches == 2
MaxAccum == 2
MaxAct == 1
MaxPasses == 3
Scale == 3
NPix == 1
MaxEps == 1
MaxAlpha == 1
MaxIters == 2

VARIABLES
  \* ---- perturbation engine
  heap,          \* tensors alive: id -> [data, requires_grad]
  y,             \* the caller's label batch
  fgsm_attack,   \* FGSMAttack instance: [epsilon]
  bim_attack,    \* BIMAttack instance: [epsilon, alpha, iters]
  memo,          \* the frozen classifier's sign gradient at the inputs seen
  fgsm_out,      \* id returned by FGSMAttack.perturb, or None
  bim_out,       \* id returned by BIMAttack.perturb, or None
  bim_pc,        \* position of BIMAttack.perturb: "idle", "loop", "done"
  bim_i,         \* iterations of its loop completed
  bim_x_adv,     \* its local x_adv (a tensor id), or None
  \* ---- GradCAM
  gradcam,       \* GradCAM instance: [activations, gradients], each None or a capture
  layer_owner,   \* who executes target_layer: "model" (self.model), "other", "none"
  passes,        \* passes made through a classifier so far
  cam_result,    \* what the generate call that just ended gave: None, Error or a map
  \* ---- the notebook's harness
  created,       \* CNN instances created so far; instance k is the k-th CNN()
  model,         \* the global name model: an instance
  optimizer,     \* the global name optimizer: the instance whose parameters it holds
  fgsm_attack_instance,  \* self.model of the FGSMAttack, 0 before it is constructed
  bim_attack_instance,   \* self.model of the BIMAttack, 0 before it is constructed
  gradcam_instance,      \* self.model of the GradCAM, 0 before it is constructed
  grads,         \* per instance: backward passes summed in its parameters' .grad
  accumulated,   \* history: a backward pass added onto gradients left by an earlier one
  training,      \* per instance: module.training
  pc,            \* the statement of the integration script to run next, or "mix"
  call,          \* the harness function being executed and its arguments
  ntest,         \* len(testloader)
  ntrain         \* len(trainloader)

attackVars == <<heap, y, fgsm_attack, bim_attack, memo, fgsm_out, bim_out,
                bim_pc, bim_i, bim_x_adv>>

camVars == <<gradcam, layer_owner, passes, cam_result>>

harnessVars == <<created, model, optimizer, fgsm_attack_instance, bim_attack_instance,
                 gradcam_instance, grads, accumulated, training, pc, call, ntest, ntrain>>

vars == <<attackVars, camVars, harnessVars>>

None == "None"

\* ------------------------------------------------------------- tensors
Pixels == 1..NPix
Images == [Pixels -> 0..Scale]
SignVectors == [Pixels -> {-1, 0, 1}]
Classes == {0, 1}
TensorIds == {"x", "t1", "t2", "t3"}

Min(a, b) == IF a <= b THEN a ELSE b
Max(a, b) == IF a >= b THEN a ELSE b
Abs(a) == IF a >= 0 THEN a ELSE -a

\* torch.clamp(v, min=lo, max=hi) == min(max(v, lo), hi); when lo > hi every
\* element becomes hi, as torch documents.
clamp(v, lo, hi) == Min(Max(v, lo), hi)

NewId(h) == CHOOSE id \in TensorIds \ DOMAIN h : TRUE

\* x.clone().detach(): a new tensor with a copy of the data, outside the graph.
clone_alias(h, src) == [id |-> src, heap |-> h]
clone_detach(h, src) ==
  [id |-> NewId(h),
   heap |-> h @@ (NewId(h) :> [data |-> h[src].data, requires_grad |-> FALSE])]

\* t.requires_grad_(True) / t.requires_grad = True: in place, on the tensor itself.
set_requires_grad(h, id) == [h EXCEPT ![id].requires_grad = TRUE]

\* a local name is rebound: the tensor it held is freed unless the caller holds it.
Release(h, id) ==
  IF id = "x" \/ id = fgsm_out \/ id = bim_out THEN h
  ELSE [k \in DOMAIN h \ {id} |-> h[k]]

\* the result of an out-of-place expression: a new tensor.
NewTensor(h, d) == h @@ (NewId(h) :> [data |-> d, requires_grad |-> FALSE])

\* model(x_adv); loss_fn(outputs, y); model.zero_grad(); loss.backward();
\* x_adv.grad.data.sign(): any sign vector, the same one for the same input.
GradSigns(m, d) == IF d \in DOMAIN m THEN {m[d]} ELSE SignVectors
Remember(m, d, g) == IF d \in DOMAIN m THEN m ELSE m @@ (d :> g)

\* ------------------------------------------------------------- FGSM
\* x_adv + self.epsilon * grad_sign
FGSMStep(d, eps, g) == [p \in Pixels |-> d[p] + eps * g[p]]

\* torch.clamp(x_adv, 0, 1)
ClampPixelsNone(d) == d
ClampPixels(d) == [p \in Pixels |-> clamp(d[p], 0, Scale)]

FGSMAttack_perturb ==
  /\ bim_pc # "loop"
  /\ fgsm_out = None
  /\ LET c == clone_detach(heap, "x")
         h1 == set_requires_grad(c.heap, c.id)
         d == h1[c.id].data
     IN \E g \in GradSigns(memo, d) :
          LET out == ClampPixels(FGSMStep(d, fgsm_attack.epsilon, g))
              h2 == Release(h1, c.id)
          IN /\ memo' = Remember(memo, d, g)
             /\ fgsm_out' = NewId(h2)
             /\ heap' = NewTensor(h2, out)
  /\ UNCHANGED <<y, fgsm_attack, bim_attack, bim_out, bim_pc, bim_i, bim_x_adv>>
  /\ UNCHANGED <<camVars, harnessVars>>

\* ------------------------------------------------------------- BIM
\* x_adv = x_adv + self.alpha * grad_sign
BIMStepDescent(d, alpha, g) == [p \in Pixels |-> d[p] - alpha * g[p]]
BIMStep(d, alpha, g) == [p \in Pixels |-> d[p] + alpha * g[p]]

\* perturbation = torch.clamp(x_adv - x, min=-self.epsilon, max=self.epsilon)
\* x_adv = torch.clamp(x + perturbation, 0, 1)
BIMProjectNoBall(d, x, eps) == [p \in Pixels |-> clamp(d[p], 0, Scale)]
BIMProject(d, x, eps) ==
  [p \in Pixels |-> clamp(x[p] + clamp(d[p] - x[p], -eps, eps), 0, Scale)]

\* x_adv = x.clone().detach()
BIMAttack_perturb_begin ==
  /\ bim_pc = "idle"
  /\ LET c == clone_detach(heap, "x")
     IN /\ heap' = c.heap
        /\ bim_x_adv' = c.id
  /\ bim_pc' = "loop"
  /\ bim_i' = 0
  /\ UNCHANGED <<y, fgsm_attack, bim_attack, memo, fgsm_out, bim_out>>
  /\ UNCHANGED <<camVars, harnessVars>>

\* one pass of: for _ in range(self.iters)
BIMAttack_perturb_iteration ==
  /\ bim_pc = "loop"
  /\ bim_i < bim_attack.iters
  /\ LET h1 == set_requires_grad(heap, bim_x_adv)
         d == h1[bim_x_adv].data
     IN \E g \in GradSigns(memo, d) :
          LET new == BIMProject(BIMStep(d, bim_attack.alpha, g), h1["x"].data,
                                bim_attack.epsilon)
              h2 == Release(h1, bim_x_adv)
          IN /\ memo' = Remember(memo, d, g)
             /\ bim_x_adv' = NewId(h2)
             /\ heap' = NewTensor(h2, new)
  /\ bim_i' = bim_i + 1
  /\ UNCHANGED <<y, fgsm_attack, bim_attack, fgsm_out, bim_out, bim_pc>>
  /\ UNCHANGED <<camVars, harnessVars>>

\* return x_adv
BIMAttack_perturb_return ==
  /\ bim_pc = "loop"
  /\ bim_i >= bim_attack.iters
  /\ bim_out' = bim_x_adv
  /\ bim_pc' = "done"
  /\ UNCHANGED <<heap, y, fgsm_attack, bim_attack, memo, fgsm_out, bim_i, bim_x_adv>>
  /\ UNCHANGED <<camVars, harnessVars>>

NoCall == [fn |-> "none"]

HarnessIdle ==
  /\ created = 1
  /\ model = 1
  /\ optimizer = 1
  /\ fgsm_attack_instance = 0
  /\ bim_attack_instance = 0
  /\ gradcam_instance = 0
  /\ grads = [m \in 1..MaxModels |-> 0]
  /\ accumulated = FALSE
  /\ training = [m \in 1..MaxModels |-> TRUE]
  /\ pc = "idle"
  /\ call = [fn |-> "none"]
  /\ ntest = 1
  /\ ntrain = 1

CamIdle ==
  /\ gradcam = [activations |-> [kind |-> "None"], gradients |-> [kind |-> "None"]]
  /\ layer_owner = "none"
  /\ passes = 0
  /\ cam_result = [kind |-> "None"]

\* FGSMAttack(model, epsilon) and BIMAttack(model, epsilon, alpha, iters): the
\* constructors store what they are given, whatever its sign.  Both attacks get
\* the same epsilon, as in the notebook (lines 280 and 297).
EpsilonValues == -1..MaxEps
AlphaValues == -1..MaxAlpha
ItersValues == 0..MaxIters

InitAttack ==
  /\ \E d \in Images : heap = ("x" :> [data |-> d, requires_grad |-> FALSE])
  /\ y \in Classes
  /\ \E e \in EpsilonValues, a \in AlphaValues, n \in ItersValues :
       /\ fgsm_attack = [epsilon |-> e]
       /\ bim_attack = [epsilon |-> e, alpha |-> a, iters |-> n]
  /\ memo = <<>>
  /\ fgsm_out = None
  /\ bim_out = None
  /\ bim_pc = "idle"
  /\ bim_i = 0
  /\ bim_x_adv = None
  /\ CamIdle
  /\ HarnessIdle

NextAttack ==
  \/ FGSMAttack_perturb
  \/ BIMAttack_perturb_begin
  \/ BIMAttack_perturb_iteration
  \/ BIMAttack_perturb_return

SpecAttack == InitAttack /\ [][NextAttack]_vars

\* ------------------------------------------------------------- claims: perturbation engine
XData == heap["x"].data

ValidFGSM == fgsm_attack.epsilon >= 0
ValidBIM ==
  /\ bim_attack.epsilon >= 0
  /\ bim_attack.alpha >= 0
  /\ bim_attack.iters >= 1

WithinBallAndRange(d, eps) ==
  \A p \in Pixels : Abs(d[p] - XData[p]) <= eps /\ 0 <= d[p] /\ d[p] <= Scale

\* C1: with epsilon >= 0, alpha >= 0 and iters >= 1, after every iteration of
\* BIMAttack.perturb (and in the batch it returns) every element of x_adv is
\* within epsilon of x and within [0,1].
C1_BIMWithinBallAndRange ==
  (bim_pc \in {"loop", "done"} /\ ValidBIM)
    => WithinBallAndRange(heap[bim_x_adv].data, bim_attack.epsilon)

\* two steps of size 1 in the same direction with budget 1: the projection
\* onto the epsilon-ball has cut the second step back.
C1_Witness ==
  /\ bim_pc = "done"
  /\ bim_attack = [epsilon |-> 1, alpha |-> 1, iters |-> 2]
  /\ bim_i = 2
  /\ XData \in DOMAIN memo
  /\ LET x1 == BIMStep(XData, 1, memo[XData])
     IN /\ x1 \in Images
        /\ x1 # XData
        /\ x1 \in DOMAIN memo
        /\ memo[x1] = memo[XData]
        /\ heap[bim_out].data = x1

\* C2: with epsilon >= 0 the batch FGSMAttack.perturb returns is within
\* epsilon of x and within [0,1], element by element.
C2_FGSMWithinBallAndRange ==
  (fgsm_out # None /\ ValidFGSM)
    => WithinBallAndRange(heap[fgsm_out].data, fgsm_attack.epsilon)

\* a pixel at the top of the range pushed upwards: the clamp keeps it at 1.
C2_Witness ==
  /\ fgsm_out # None
  /\ fgsm_attack.epsilon = 1
  /\ \E p \in Pixels :
       /\ XData[p] = Scale
       /\ memo[XData][p] = 1
       /\ heap[fgsm_out].data[p] = Scale

C5_InvalidParametersRejected ==
  /\ ~ValidFGSM => fgsm_out = None
  /\ ~ValidBIM => bim_out = None

\* C7: perturb leaves the caller's x (its data and its requires_grad flag)
\* and y as they were, and what it returns is another tensor than x.
C7_InputsUntouched ==
  [][/\ heap'["x"] = heap["x"]
     /\ y' = y
     /\ fgsm_out' # "x"
     /\ bim_out' # "x"]_vars

C7_Witness ==
  /\ fgsm_out # None
  /\ bim_pc = "done"
  /\ bim_i = 2
  /\ heap[fgsm_out].data # XData
  /\ heap[bim_out].data # XData
  /\ heap[bim_out].data # heap[fgsm_out].data

\* ------------------------------------------------------------- GradCAM
\* The designated layer's output has Channels x Positions entries; the CNN
\* halves the width before it (MaxPool2d(2)), and the input is ImageWidth wide.
\* Height and width are treated alike by every step of generate, so one
\* spatial dimension stands for both.
Error == "Error"
NoResult == [kind |-> "None"]
LayerWidth == ImageWidth \div 2
Channels == {1, 2}
Positions == 0..(LayerWidth - 1)
OutPositions == 0..(ImageWidth - 1)
Activations == [Channels -> [Positions -> -1..MaxAct]]
Gradients == [Channels -> [Positions -> {-1, 0, 1}]]
InputImages == {"clean", "adv"}

\* the tensors one pass of the harness may put through the layer: one value in
\* every entry
Uniform(v) == [c \in Channels |-> [q \in Positions |-> v]]
SampleActivations == {Uniform(v) : v \in -1..MaxAct}
SampleGradients == {Uniform(v) : v \in {-1, 0, 1}}

RECURSIVE SumOver(_, _)
SumOver(f, S) ==
  IF S = {} THEN 0
  ELSE LET e == CHOOSE e \in S : TRUE IN f[e] + SumOver(f, S \ {e})

MinOf(f) == CHOOSE v \in {f[i] : i \in DOMAIN f} : \A i \in DOMAIN f : v <= f[i]
MaxOf(f) == CHOOSE v \in {f[i] : i \in DOMAIN f} : \A i \in DOMAIN f : v >= f[i]

\* self.gradients = None; self.activations = None; self._register_hooks()
NoCapture == [kind |-> "None"]
GradCAM_init == [activations |-> NoCapture, gradients |-> NoCapture]

\* forward_hook: self.activations = output.detach()
forward_hook_once(g, output) ==
  IF g.activations = NoCapture THEN [g EXCEPT !.activations = output] ELSE g
forward_hook(g, output) == [g EXCEPT !.activations = output]

\* backward_hook: self.gradients = grad_out[0].detach()
backward_hook(g, grad_out) == [g EXCEPT !.gradients = grad_out]

\* self.gradients.mean(dim=[2, 3], keepdim=True), times LayerWidth
Weights(gr) == [c \in Channels |-> SumOver(gr[c], Positions)]

\* F.relu(torch.sum(weights * self.activations, dim=1, keepdim=True)), times LayerWidth
WeightedSumRelu(w, acts) ==
  [q \in Positions |->
     Max(0, SumOver([c \in Channels |-> w[c] * acts[c][q]], Channels))]

\* F.interpolate(map, size=input_image.shape[2:], mode='bilinear',
\* align_corners=False), times 2 * ImageWidth: output position i reads the source
\* coordinate max(0, (i + 1/2) * LayerWidth / ImageWidth - 1/2).
Interpolate(m) ==
  [i \in OutPositions |->
     LET s == Max(0, (2 * i + 1) * LayerWidth - ImageWidth)
         i0 == s \div (2 * ImageWidth)
         i1 == Min(i0 + 1, LayerWidth - 1)
         lam == s % (2 * ImageWidth)
     IN (2 * ImageWidth - lam) * m[i0] + lam * m[i1]]

\* (map - map.min()) / (map.max() - map.min() + 1e-8): the quotient num / den
\* with den = range + stability * 1e-8.  num and range are whole numbers of grid
\* steps of 1 / (2 * ImageWidth * LayerWidth), and 1e-8 is less than one step.
NormalizeNoStability(m) ==
  [num |-> [i \in OutPositions |-> m[i] - MinOf(m)],
   den |-> [range |-> MaxOf(m) - MinOf(m), stability |-> 0]]
Normalize(m) ==
  [num |-> [i \in OutPositions |-> m[i] - MinOf(m)],
   den |-> [range |-> MaxOf(m) - MinOf(m), stability |-> 1]]

\* lines 259-264 of generate on the captures as they are then: None has no
\* .mean (AttributeError) and cannot be multiplied (TypeError).
ComputeMapLenient(g) ==
  LET zero == [c \in Channels |-> [q \in Positions |-> 0]]
      gr == IF g.gradients = NoCapture THEN zero ELSE g.gradients.val
      ac == IF g.activations = NoCapture THEN zero ELSE g.activations.val
      n == Normalize(Interpolate(WeightedSumRelu(Weights(gr), ac)))
  IN [kind |-> "map", num |-> n.num, den |-> n.den]
ComputeMap(g) ==
  IF g.gradients = NoCapture \/ g.activations = NoCapture THEN [kind |-> Error]
  ELSE LET n == Normalize(Interpolate(WeightedSumRelu(Weights(g.gradients.val),
                                                       g.activations.val)))
       IN [kind |-> "map", num |-> n.num, den |-> n.den]

\* generate(input_image, target_class): zero_grad, the forward pass (the
\* forward hook fires if self.model executes target_layer), the backward pass of
\* output[0, target_class] (the backward hook fires likewise), then the map.
GradCAM_generate ==
  /\ passes < MaxPasses
  /\ \E img \in InputImages, cls \in Classes,
        a \in SampleActivations, d \in SampleGradients :
       LET n == passes + 1
           g1 == IF layer_owner = "model"
                 THEN forward_hook(gradcam, [kind |-> "tensor", val |-> a, pass |-> n, input |-> img])
                 ELSE gradcam
           g2 == IF layer_owner = "model"
                 THEN backward_hook(g1, [kind |-> "tensor", val |-> d, pass |-> n, input |-> img,
                                         score |-> cls])
                 ELSE g1
       IN /\ gradcam' = g2
          /\ passes' = n
          /\ cam_result' = ComputeMap(g2) @@
                           [pass |-> n, input |-> img, score |-> cls,
                            activations |-> g2.activations, gradients |-> g2.gradients]
  /\ UNCHANGED <<layer_owner>>
  /\ UNCHANGED <<attackVars, harnessVars>>

\* a forward pass without backward through target_layer by whoever executes it:
\* model(adv) under no_grad, get_accuracy, model(adv_image).
LayerForward ==
  /\ passes < MaxPasses
  /\ layer_owner # "none"
  /\ \E a \in SampleActivations :
       gradcam' = forward_hook(gradcam, [kind |-> "tensor", val |-> a, pass |-> passes + 1,
                                         input |-> "batch"])
  /\ passes' = passes + 1
  /\ cam_result' = NoResult
  /\ UNCHANGED <<layer_owner>>
  /\ UNCHANGED <<attackVars, harnessVars>>

\* a forward and backward pass of a loss through target_layer: an attack's
\* perturb, a training step.
LayerForwardBackward ==
  /\ passes < MaxPasses
  /\ layer_owner # "none"
  /\ \E a \in SampleActivations, d \in SampleGradients :
       gradcam' = backward_hook(
                    forward_hook(gradcam, [kind |-> "tensor", val |-> a, pass |-> passes + 1,
                                           input |-> "batch"]),
                    [kind |-> "tensor", val |-> d, pass |-> passes + 1, input |-> "batch",
                     score |-> "loss"])
  /\ passes' = passes + 1
  /\ cam_result' = NoResult
  /\ UNCHANGED <<layer_owner>>
  /\ UNCHANGED <<attackVars, harnessVars>>

AttackIdle ==
  /\ heap = ("x" :> [data |-> [p \in Pixels |-> 0], requires_grad |-> FALSE])
  /\ y = 0
  /\ fgsm_attack = [epsilon |-> 0]
  /\ bim_attack = [epsilon |-> 0, alpha |-> 0, iters |-> 0]
  /\ memo = <<>>
  /\ fgsm_out = None
  /\ bim_out = None
  /\ bim_pc = "idle"
  /\ bim_i = 0
  /\ bim_x_adv = None

\* GradCAM(model, target_layer): any layer may be given.
InitCAM ==
  /\ gradcam = GradCAM_init
  /\ layer_owner \in {"model", "other", "none"}
  /\ passes = 0
  /\ cam_result = NoResult
  /\ AttackIdle
  /\ HarnessIdle

NextCAM ==
  \/ GradCAM_generate
  \/ LayerForward
  \/ LayerForwardBackward

SpecCAM == InitCAM /\ [][NextCAM]_vars

\* Lines 259-264 of generate as a function of what the hooks captured: every
\* activation and gradient tensor of the layer.
GradCAM_generate_map ==
  /\ cam_result = NoResult
  /\ cam_result' = ComputeMap(gradcam) @@
                   [pass |-> passes, input |-> gradcam.activations.input,
                    score |-> gradcam.gradients.score,
                    activations |-> gradcam.activations, gradients |-> gradcam.gradients]
  /\ UNCHANGED <<gradcam, layer_owner, passes>>
  /\ UNCHANGED <<attackVars, harnessVars>>

InitCAMMap ==
  /\ \E a \in Activations, d \in Gradients :
       gradcam = [activations |-> [kind |-> "tensor", val |-> a, pass |-> 1,
                                   input |-> "clean"],
                  gradients |-> [kind |-> "tensor", val |-> d, pass |-> 1,
                                 input |-> "clean", score |-> 0]]
  /\ layer_owner = "model"
  /\ passes = 1
  /\ cam_result = NoResult
  /\ AttackIdle
  /\ HarnessIdle

NextCAMMap == GradCAM_generate_map

SpecCAMMap == InitCAMMap /\ [][NextCAMMap]_vars

\* ------------------------------------------------------------- claims: GradCAM
IsMap == cam_result # NoResult /\ cam_result.kind = "map"

\* den > 0 and num <= den for den = range + stability * 1e-8, num a whole number
\* of grid steps
DenPositive(den) == den.range > 0 \/ (den.range = 0 /\ den.stability > 0)
LeqDen(num, den) == num < den.range \/ (num = den.range /\ den.stability >= 0)

\* C4: every value of the map generate returns lies in [0,1] (the divisor is
\* never zero), and when the captured gradient is zero everywhere the map is
\* zero everywhere.
C4_MapInUnitInterval ==
  IsMap =>
    /\ DenPositive(cam_result.den)
    /\ \A i \in OutPositions :
         0 <= cam_result.num[i] /\ LeqDen(cam_result.num[i], cam_result.den)
    /\ (\A c \in Channels, q \in Positions : cam_result.gradients.val[c][q] = 0)
         => \A i \in OutPositions : cam_result.num[i] = 0

\* a uniform map (zero gradient, non-zero activations): max = min.
C4_Witness ==
  /\ IsMap
  /\ \A c \in Channels, q \in Positions : cam_result.gradients.val[c][q] = 0
  /\ \E c \in Channels, q \in Positions : cam_result.activations.val[c][q] # 0
  /\ \A i \in OutPositions : cam_result.num[i] = 0

\* C6: when no activation or no gradient has been captured, generate fails
\* with an error and returns no map.
C6_AbsentCaptureIsError ==
  [][(passes' # passes /\ cam_result' # NoResult
        /\ (gradcam'.activations = NoCapture \/ gradcam'.gradients = NoCapture))
       => cam_result'.kind = Error]_vars

C6_Witness ==
  /\ cam_result # NoResult
  /\ cam_result.kind = Error
  /\ layer_owner = "none"
  /\ gradcam.gradients = NoCapture

\* C9: a map computed on a layer the classifier executes combines the
\* activations of this call's forward pass on input_image and the gradient of
\* this call's backward pass of the target_class score.
C9_CapturesAreThisCalls ==
  (IsMap /\ layer_owner = "model") =>
    /\ cam_result.activations.pass = cam_result.pass
    /\ cam_result.activations.input = cam_result.input
    /\ cam_result.gradients.pass = cam_result.pass
    /\ cam_result.gradients.input = cam_result.input
    /\ cam_result.gradients.score = cam_result.score

\* generate after an attack or evaluation pass already went through the layer
C9_Witness ==
  /\ IsMap
  /\ layer_owner = "model"
  /\ cam_result.pass = 2
  /\ cam_result.activations.pass = 2
  /\ cam_result.gradients.pass = 2

\* ------------------------------------------------------------- the harness
BimIters == 5
Epochs == 10

ScriptNext(l) ==
  CASE l = "L280" -> "L293"
    [] l = "L293" -> "L297"
    [] l = "L297" -> "L300"
    [] l = "L300" -> "L306"
    [] l = "L306" -> "L311"
    [] l = "L311" -> "L314"
    [] l = "L314" -> "L317"
    [] l = "L317" -> "L318"
    [] l = "L318" -> "L365"
    [] l = "L365" -> "L369"
    [] l = "L369" -> "L371"
    [] l = "L371" -> "L372"
    [] l = "L372" -> "end"
    [] OTHER -> l

\* the statement at one of `labels` is next and no call is in progress; in a
\* free mix of calls ("mix") every statement may be next.
At(labels) == call = NoCall /\ (pc = "mix" \/ pc \in labels)
After == ScriptNext(pc)

\* the gradient buffers of the classifiers: [grads, accumulated]
Buffers == [grads |-> grads, accumulated |-> accumulated]

\* module.zero_grad() / optimizer.zero_grad(): the parameters' .grad are cleared
zero_grad(b, m) == [b EXCEPT !.grads[m] = 0]

\* loss.backward(): adds this pass's gradients onto the parameters' .grad
backward(b, m) ==
  [grads |-> [b.grads EXCEPT ![m] = Min(@ + 1, MaxAccum)],
   accumulated |-> b.accumulated \/ b.grads[m] > 0]

\* FGSMAttack.perturb: model(x_adv); self.model.zero_grad(); loss.backward()
FGSM_passes(b, m) == backward(zero_grad(b, m), m)

\* BIMAttack.perturb: self.iters times model(x_adv); self.model.zero_grad();
\* loss.backward()
RECURSIVE BIM_passes(_, _, _)
BIM_passes(b, m, iters) ==
  IF iters <= 0 THEN b
  ELSE BIM_passes(backward(zero_grad(b, m), m), m, iters - 1)

\* attack.perturb(x, y) for the attack instance named `a`
AttackModel(a) == IF a = "fgsm" THEN fgsm_attack_instance ELSE bim_attack_instance
perturb_passes(b, a) ==
  IF a = "fgsm" THEN FGSM_passes(b, fgsm_attack_instance)
  ELSE BIM_passes(b, bim_attack_instance, BimIters)

\* GradCAM.generate: self.model.zero_grad(); self.model(input_image);
\* loss.backward(retain_graph=True)
generate_passes(b, m) == backward(zero_grad(b, m), m)

\* adversarial_training, one batch: attack.perturb; optimizer.zero_grad();
\* model(images); model(images_adv); loss_total.backward(); optimizer.step()
training_passes_no_clear(b, m, opt, a) == backward(perturb_passes(b, a), m)
training_passes(b, m, opt, a) == backward(zero_grad(perturb_passes(b, a), opt), m)

SetBuffers(b) ==
  /\ grads' = b.grads
  /\ accumulated' = b.accumulated

\* fgsm_attack_instance = FGSMAttack(model, epsilon=8/255)
FGSMAttack_new ==
  /\ At({"L280"})
  /\ fgsm_attack_instance' = model
  /\ pc' = After
  /\ UNCHANGED <<created, model, optimizer, bim_attack_instance, gradcam_instance,
                 grads, accumulated, training, call, ntest, ntrain>>
  /\ UNCHANGED <<attackVars, camVars>>

\* bim_attack_instance = BIMAttack(model, epsilon=8/255, alpha=2/255, iters=5)
BIMAttack_new ==
  /\ At({"L297"})
  /\ bim_attack_instance' = model
  /\ pc' = After
  /\ UNCHANGED <<created, model, optimizer, fgsm_attack_instance, gradcam_instance,
                 grads, accumulated, training, call, ntest, ntrain>>
  /\ UNCHANGED <<attackVars, camVars>>

\* gradcam = GradCAM(model, target_layer=model.conv[4])
GradCAM_new ==
  /\ At({"L306"})
  /\ gradcam_instance' = model
  /\ pc' = After
  /\ UNCHANGED <<created, model, optimizer, fgsm_attack_instance, bim_attack_instance,
                 grads, accumulated, training, call, ntest, ntrain>>
  /\ UNCHANGED <<attackVars, camVars>>

\* the attack a statement passes: fgsm at L293 and L372, bim at L300 and L369
AttacksAt(l) ==
  CASE l \in {"L293", "L372"} -> {"fgsm"}
    [] l \in {"L300", "L369"} -> {"bim"}
    [] OTHER -> {"fgsm", "bim"}

\* get_adversarial_accuracy(model, testloader, attack, device): model.eval()
get_adversarial_accuracy_enter ==
  /\ At({"L293", "L300", "L372"})
  /\ \E a \in AttacksAt(pc) :
       /\ AttackModel(a) # 0
       /\ call' = [fn |-> "get_adversarial_accuracy", model |-> model, attack |-> a,
                   attack_model |-> AttackModel(a), at |-> "batch", epoch |-> 0,
                   batch |-> 0]
  /\ training' = [training EXCEPT ![model] = FALSE]
  /\ UNCHANGED <<created, model, optimizer, fgsm_attack_instance, bim_attack_instance,
                 gradcam_instance, grads, accumulated, pc, ntest, ntrain>>
  /\ UNCHANGED <<attackVars, camVars>>

\* for x, y in dataloader: adv = attack.perturb(x, y); out = model(adv) under no_grad
get_adversarial_accuracy_batch ==
  /\ call.fn = "get_adversarial_accuracy"
  /\ call.batch < ntest
  /\ SetBuffers(perturb_passes(Buffers, call.attack))
  /\ call' = [call EXCEPT !.batch = @ + 1]
  /\ UNCHANGED <<created, model, optimizer, fgsm_attack_instance, bim_attack_instance,
                 gradcam_instance, training, pc, ntest, ntrain>>
  /\ UNCHANGED <<attackVars, camVars>>

\* return correct / len(dataloader.dataset)
get_adversarial_accuracy_return ==
  /\ call.fn = "get_adversarial_accuracy"
  /\ call.batch = ntest
  /\ call' = NoCall
  /\ pc' = After
  /\ UNCHANGED <<created, model, optimizer, fgsm_attack_instance, bim_attack_instance,
                 gradcam_instance, grads, accumulated, training, ntest, ntrain>>
  /\ UNCHANGED <<attackVars, camVars>>

\* adv_image = fgsm_attack_instance.perturb(x_batch, y_batch)
visualization_perturb ==
  /\ At({"L311"})
  /\ fgsm_attack_instance # 0
  /\ SetBuffers(perturb_passes(Buffers, "fgsm"))
  /\ pc' = After
  /\ UNCHANGED <<created, model, optimizer, fgsm_attack_instance, bim_attack_instance,
                 gradcam_instance, training, call, ntest, ntrain>>
  /\ UNCHANGED <<attackVars, camVars>>

\* adv_label = model(adv_image).argmax(dim=1)[0].item(): a forward pass only
visualization_forward ==
  /\ call = NoCall
  /\ pc = "L314"
  /\ pc' = After
  /\ UNCHANGED <<created, model, optimizer, fgsm_attack_instance, bim_attack_instance,
                 gradcam_instance, grads, accumulated, training, call, ntest, ntrain>>
  /\ UNCHANGED <<attackVars, camVars>>

\* heatmap_clean = gradcam.generate(x_batch[0:1], clean_label)
\* heatmap_adv = gradcam.generate(adv_image[0:1], adv_label)
gradcam_generate ==
  /\ At({"L317", "L318"})
  /\ gradcam_instance # 0
  /\ SetBuffers(generate_passes(Buffers, gradcam_instance))
  /\ pc' = After
  /\ UNCHANGED <<created, model, optimizer, fgsm_attack_instance, bim_attack_instance,
                 gradcam_instance, training, call, ntest, ntrain>>
  /\ UNCHANGED <<attackVars, camVars>>

\* model = CNN().to(device); optimizer = torch.optim.Adam(model.parameters(), lr=1e-3)
recreate_model ==
  /\ At({"L365"})
  /\ created < MaxModels
  /\ created' = created + 1
  /\ model' = created + 1
  /\ optimizer' = created + 1
  /\ pc' = After
  /\ UNCHANGED <<fgsm_attack_instance, bim_attack_instance, gradcam_instance, grads,
                 accumulated, training, call, ntest, ntrain>>
  /\ UNCHANGED <<attackVars, camVars>>

\* adversarial_training(model, trainloader, optimizer, criterion, device, attack, epochs)
adversarial_training_enter ==
  /\ At({"L369"})
  /\ \E a \in AttacksAt(pc) :
       /\ AttackModel(a) # 0
       /\ call' = [fn |-> "adversarial_training", model |-> model, attack |-> a,
                   attack_model |-> AttackModel(a), at |-> "epoch", epoch |-> 0,
                   batch |-> 0]
  /\ UNCHANGED <<created, model, optimizer, fgsm_attack_instance, bim_attack_instance,
                 gradcam_instance, grads, accumulated, training, pc, ntest, ntrain>>
  /\ UNCHANGED <<attackVars, camVars>>

\* for epoch in range(epochs): model.train()
adversarial_training_epoch ==
  /\ call.fn = "adversarial_training"
  /\ call.at = "epoch"
  /\ call.epoch < Epochs
  /\ training' = [training EXCEPT ![call.model] = TRUE]
  /\ call' = [call EXCEPT !.at = "batch", !.batch = 0]
  /\ UNCHANGED <<created, model, optimizer, fgsm_attack_instance, bim_attack_instance,
                 gradcam_instance, grads, accumulated, pc, ntest, ntrain>>
  /\ UNCHANGED <<attackVars, camVars>>

\* for images, labels in train_loader: one training step
adversarial_training_batch ==
  /\ call.fn = "adversarial_training"
  /\ call.at = "batch"
  /\ call.batch < ntrain
  /\ SetBuffers(training_passes(Buffers, call.model, optimizer, call.attack))
  /\ call' = [call EXCEPT !.batch = @ + 1]
  /\ UNCHANGED <<created, model, optimizer, fgsm_attack_instance, bim_attack_instance,
                 gradcam_instance, training, pc, ntest, ntrain>>
  /\ UNCHANGED <<attackVars, camVars>>

\* the loader is exhausted: print the epoch's figures
adversarial_training_epoch_end ==
  /\ call.fn = "adversarial_training"
  /\ call.at = "batch"
  /\ call.batch = ntrain
  /\ call' = [call EXCEPT !.at = "epoch", !.epoch = @ + 1]
  /\ UNCHANGED <<created, model, optimizer, fgsm_attack_instance, bim_attack_instance,
                 gradcam_instance, grads, accumulated, training, pc, ntest, ntrain>>
  /\ UNCHANGED <<attackVars, camVars>>

adversarial_training_return ==
  /\ call.fn = "adversarial_training"
  /\ call.at = "epoch"
  /\ call.epoch = Epochs
  /\ call' = NoCall
  /\ pc' = After
  /\ UNCHANGED <<created, model, optimizer, fgsm_attack_instance, bim_attack_instance,
                 gradcam_instance, grads, accumulated, training, ntest, ntrain>>
  /\ UNCHANGED <<attackVars, camVars>>

\* get_accuracy(model, testloader, device): model.eval(), forward passes under no_grad
get_accuracy ==
  /\ At({"L371"})
  /\ training' = [training EXCEPT ![model] = FALSE]
  /\ pc' = After
  /\ UNCHANGED <<created, model, optimizer, fgsm_attack_instance, bim_attack_instance,
                 gradcam_instance, grads, accumulated, call, ntest, ntrain>>
  /\ UNCHANGED <<attackVars, camVars>>

InitHarness(start) ==
  /\ created = 1
  /\ model = 1
  /\ optimizer = 1
  /\ fgsm_attack_instance = 0
  /\ bim_attack_instance = 0
  /\ gradcam_instance = 0
  /\ grads = [m \in 1..MaxModels |-> 0]
  /\ accumulated = FALSE
  /\ training = [m \in 1..MaxModels |-> TRUE]
  /\ pc = start
  /\ call = NoCall
  /\ ntest \in 1..MaxBatches
  /\ ntrain \in 1..MaxBatches
  /\ AttackIdle
  /\ CamIdle

NextHarness ==
  \/ FGSMAttack_new
  \/ BIMAttack_new
  \/ GradCAM_new
  \/ get_adversarial_accuracy_enter
  \/ get_adversarial_accuracy_batch
  \/ get_adversarial_accuracy_return
  \/ visualization_perturb
  \/ gradcam_generate
  \/ recreate_model
  \/ adversarial_training_enter
  \/ adversarial_training_epoch
  \/ adversarial_training_batch
  \/ adversarial_training_epoch_end
  \/ adversarial_training_return
  \/ get_accuracy

\* the integration script, statement by statement
InitNotebook == InitHarness("L280")
NextNotebook == NextHarness \/ visualization_forward
SpecNotebook == InitNotebook /\ [][NextNotebook]_vars

\* any sequential mix of the harness's calls
InitMix == InitHarness("mix")
NextMix == NextHarness
SpecMix == InitMix /\ [][NextMix]_vars

\* ------------------------------------------------------------- claims: harness
\* C8: no backward pass through a classifier adds onto parameter gradients
\* left by an earlier backward pass: each one follows a clearing of that
\* classifier's gradients with no other backward pass in between.
C8_BackwardOnClearedGradients ==
  /\ ~accumulated
  /\ \A m \in 1..MaxModels : grads[m] <= 1

\* a training step whose attack runs on the classifier being trained, after
\* a generate call on it
C8_Witness ==
  /\ call.fn = "adversarial_training"
  /\ call.attack_model = call.model
  /\ call.batch = 2
  /\ gradcam_instance = call.model
  /\ grads[call.model] = 1

\* C10: in every call of get_adversarial_accuracy and adversarial_training the
\* attack's classifier is the classifier that is evaluated or trained.
C10_AttackBoundToEvaluatedModel ==
  call.fn \in {"get_adversarial_accuracy", "adversarial_training"}
    => call.attack_model = call.model

====
